---- MODULE Spec2Model ----
(***************************************************************************)
(* The job registry (common/storage.py) and the worker claim/process loop  *)
(* (worker/worker.py) of cloud-migration-spot.                             *)
(*                                                                         *)
(* The registry is one serialized list of Job records (jobs.json, or the   *)
(* jobs/jobs.json object of a bucket/container).  Every operation reads    *)
(* the whole list and, when it changes something, writes the whole list    *)
(* back; the read and the write are separate I/O steps, so other processes *)
(* may run between them.                                                   *)
(***************************************************************************)
EXTENDS Naturals, Sequences, FiniteSets

\* ---------------------------------------------------------------- bounds
NumWorkers == 2
NumCreators == 2
MaxJobs == 2

Workers == 1..NumWorkers
Creators == 1..NumCreators
Ids == 1..MaxJobs

\* ------------------------------------------------------------ job records
PENDING == "PENDING"
PROCESSING == "PROCESSING"
DONE == "DONE"
FAILED == "FAILED"
JobStatus == {PENDING, PROCESSING, DONE, FAILED}

\* Optional[str] = None
None == "None"
\* str(e) of the exception caught by process_job
ErrText == "error"
\* the file names and the contents of uploads
Filenames == {"a.png", "b.png"}
Bytes == {"png", "corrupt"}

\* STORAGE_BACKEND
Backends == {"local", "gcp", "azure"}

\* where create_job_from_bytes stores an upload: a path under LOCAL_INPUT_DIR,
\* gs://<bucket>/input/<filename>, az://<container>/input/<filename>
InputPathOn(b, filename) ==
  CASE b = "local" -> <<"file", "input", filename>>
    [] b = "gcp" -> <<"gs", "input", filename>>
    [] b = "azure" -> <<"az", "input", filename>>

\* an output name that does not depend on the job: one fixed name per backend
OutputPathFixed(b, id) ==
  CASE b = "local" -> <<"file", "tmp", 0>>
    [] b = "gcp" -> <<"gs", "output", 0>>
    [] b = "azure" -> <<"az", "output", 0>>

\* where the output of a job is: /tmp/<id>.png (the file the worker saved),
\* gs://<bucket>/output/<id>.png, az://<container>/output/<id>.png
OutputPathOn(b, id) ==
  CASE b = "local" -> <<"file", "tmp", id>>
    [] b = "gcp" -> <<"gs", "output", id>>
    [] b = "azure" -> <<"az", "output", id>>

\* the files a worker cycle leaves on the worker's disk
TmpFile(id) == <<"tmp-download", id>>
OutFile(id) == <<"file", "tmp", id>>

Job(id, image_path) ==
  [id |-> id, image_path |-> image_path, result_path |-> <<>>,
   status |-> PENDING, error |-> None]

\* "no job": get_next_pending_job / get_job returning None
NoJob == [id |-> 0, image_path |-> <<>>, result_path |-> <<>>,
          status |-> None, error |-> None]

VARIABLES
  registry,   \* the persisted list of Job records
  nextId,     \* the next fresh uuid
  pc,         \* worker -> its position in main / process_job
  job,        \* worker -> its local Job object (NoJob outside process_job)
  wjobs,      \* worker -> the list update_job read and has not yet written
  cpc,        \* creator -> its position in create_job_from_bytes
  cjob,       \* creator -> the Job it is creating
  cjobs,      \* creator -> the list it read and has not yet written
  created,    \* history: ids in the order create_job_from_bytes returned them
  claimedBy,  \* history: id -> the workers that got it from get_next_pending_job
  backend,    \* STORAGE_BACKEND, read once at start
  inputs,     \* the input namespace: file name -> stored bytes (None: no object)
  outputs,    \* the output namespace of a bucket/container: ids with an output object
  files,      \* the files on the workers' disk written by worker cycles
  origBytes,  \* history: id -> the bytes passed to the create call of that job
  origPath,   \* history: id -> the image_path the job was created with
  fileText,   \* the form of the persisted registry text: "json", "blank", "garbage"
  raisedAt,   \* worker -> the call of this cycle that raised ("none": none yet)
  api,        \* the last request served by the API and its response
  parity      \* three deployments, one per backend, driven by the same operations

storeVars == <<backend, inputs, outputs, files, origBytes, origPath>>
vars == <<registry, nextId, pc, job, wjobs, cpc, cjob, cjobs, created, claimedBy,
          storeVars, fileText, raisedAt, api, parity>>
workerVars == <<pc, job, wjobs, claimedBy>>
creatorVars == <<nextId, cpc, cjob, cjobs, created>>

InputPath(filename) == InputPathOn(backend, filename)
OutputPath(id) == OutputPathOn(backend, id)
\* the file name an image_path points to
FilenameOf(image_path) == image_path[3]

Range(s) == {s[k] : k \in 1..Len(s)}

\* ------------------------------------------------------- storage functions
\* a scan that keeps the last match instead of returning the first
get_last_pending_job(jobs) ==
  LET P == {k \in 1..Len(jobs) : jobs[k].status = PENDING}
  IN IF P = {} THEN NoJob
     ELSE jobs[CHOOSE k \in P : \A m \in P : k >= m]

\* the first record with status PENDING, or None
get_next_pending_job(jobs) ==
  LET P == {k \in 1..Len(jobs) : jobs[k].status = PENDING}
  IN IF P = {} THEN NoJob
     ELSE jobs[CHOOSE k \in P : \A m \in P : k <= m]

\* the outcome "the call raised" of a lookup
Raised == [NoJob EXCEPT !.status = "Raised"]

\* a lookup that raises when no record matches (next(...) without a default)
get_job_or_raise(jobs, id) ==
  LET P == {k \in 1..Len(jobs) : jobs[k].id = id}
  IN IF P = {} THEN Raised
     ELSE jobs[CHOOSE k \in P : \A m \in P : k <= m]

\* the record with this id, or None
get_job(jobs, id) ==
  LET P == {k \in 1..Len(jobs) : jobs[k].id = id}
  IN IF P = {} THEN NoJob
     ELSE jobs[CHOOSE k \in P : \A m \in P : k <= m]

\* update_job, step 2: replace the first record whose id is j.id (none: no change)
ReplaceJob(jobs, j) ==
  LET P == {k \in 1..Len(jobs) : jobs[k].id = j.id}
  IN IF P = {} THEN jobs
     ELSE [jobs EXCEPT ![CHOOSE k \in P : \A m \in P : k <= m] = j]

\* whether the registry holds a record with this id
HasId(jobs, id) == \E k \in 1..Len(jobs) : jobs[k].id = id

\* _read_local_jobs / _read_gcs_jobs / _read_azure_jobs: json.loads raises on
\* text that is not JSON; _read_local_jobs first turns blank text into "[]"
ReadRaises(b, text) ==
  \/ text = "garbage"
  \/ text = "blank" /\ b # "local"
ReadJobs(b, text, jobs) == IF text = "json" THEN jobs ELSE <<>>

\* create_job_from_bytes: jobs.append(job)
AppendJob(jobs, j) == Append(jobs, j)

\* a claim that also points image_path at the worker's downloaded copy
MarkProcessingMovesPath(j) ==
  [j EXCEPT !.status = PROCESSING, !.image_path = TmpFile(j.id)]

\* process_job, line 15
MarkProcessing(j) == [j EXCEPT !.status = PROCESSING]
\* upload_output_from_local: job.result_path = <the output's path>
SetResult(j) == [j EXCEPT !.result_path = OutputPath(j.id)]
\* process_job, lines 25-26
MarkDone(j) == [j EXCEPT !.status = DONE, !.result_path = j.result_path]
\* a handler that sets the status and leaves the error unset
MarkFailedNoError(j) == [j EXCEPT !.status = FAILED]
\* process_job, lines 30-31
MarkFailed(j) == [j EXCEPT !.status = FAILED, !.error = ErrText]

StatusOf(id) == get_job(registry, id).status

\* filenames of the lockstep runs: the plain ones and one with a directory part
NestedFilenames == {"d/a.png"}
ParFilenames == Filenames \cup NestedFilenames

\* the three deployments before their first operation
NoOperations ==
  [reg |-> [b \in Backends |-> <<>>],
   job |-> [b \in Backends |-> NoJob],
   inputs |-> [f \in ParFilenames |-> None],
   next |-> 1,
   pc |-> "idle"]

\* the API before its first request
NoRequest ==
  [op |-> "none", id |-> 0, known |-> FALSE, done |-> FALSE, stored |-> FALSE,
   job |-> NoJob, outcome |-> "none"]

\* ---------------------------------------------------------------- Init
Init ==
  /\ backend \in Backends
  /\ inputs = [f \in Filenames |-> None]
  /\ outputs = {}
  /\ files = {}
  /\ origBytes = [i \in Ids |-> None]
  /\ origPath = [i \in Ids |-> <<>>]
  /\ registry = <<>>
  /\ fileText = "json"
  /\ raisedAt = [w \in Workers |-> "none"]
  /\ api = NoRequest
  /\ parity = NoOperations
  /\ nextId = 1
  /\ pc = [w \in Workers |-> "poll"]
  /\ job = [w \in Workers |-> NoJob]
  /\ wjobs = [w \in Workers |-> <<>>]
  /\ cpc = [c \in Creators |-> "idle"]
  /\ cjob = [c \in Creators |-> NoJob]
  /\ cjobs = [c \in Creators |-> <<>>]
  /\ created = <<>>
  /\ claimedBy = [i \in Ids |-> {}]

\* ------------------------------------------------- create_job_from_bytes
\* dest.write_bytes / blob.upload_from_string / upload_blob(overwrite=True):
\* the object named after the file name now holds these bytes
PutInput(store, filename, bytes) == [store EXCEPT ![filename] = bytes]

\* uuid4, the upload of the bytes, and the Job object
CreateStart(c) ==
  /\ cpc[c] = "idle"
  /\ nextId <= MaxJobs
  /\ \E f \in Filenames, b \in Bytes :
       /\ inputs' = PutInput(inputs, f, b)
       /\ origBytes' = [origBytes EXCEPT ![nextId] = b]
       /\ origPath' = [origPath EXCEPT ![nextId] = InputPath(f)]
       /\ cjob' = [cjob EXCEPT ![c] = Job(nextId, InputPath(f))]
  /\ nextId' = nextId + 1
  /\ cpc' = [cpc EXCEPT ![c] = "read"]
  /\ UNCHANGED <<registry, cjobs, created, workerVars, backend, outputs, files,
                 fileText, raisedAt, api, parity>>

\* jobs = _read_*_jobs()
CreateRead(c) ==
  /\ cpc[c] = "read"
  /\ ~ReadRaises(backend, fileText)
  /\ cjobs' = [cjobs EXCEPT ![c] = ReadJobs(backend, fileText, registry)]
  /\ cpc' = [cpc EXCEPT ![c] = "write"]
  /\ UNCHANGED <<registry, nextId, cjob, created, workerVars, storeVars,
                 fileText, raisedAt, api, parity>>

\* jobs.append(job); _write_*_jobs(jobs); return job
CreateWrite(c) ==
  /\ cpc[c] = "write"
  /\ registry' = AppendJob(cjobs[c], cjob[c])
  /\ fileText' = "json"
  /\ created' = Append(created, cjob[c].id)
  /\ cpc' = [cpc EXCEPT ![c] = "idle"]
  /\ cjob' = [cjob EXCEPT ![c] = NoJob]
  /\ cjobs' = [cjobs EXCEPT ![c] = <<>>]
  /\ UNCHANGED <<nextId, workerVars, storeVars,
                 raisedAt, api, parity>>

\* ------------------------------------------------------------ worker loop
\* main: job = get_next_pending_job(); if job: process_job(job) (up to line 15)
\* else: time.sleep
\* a loop that sleeps after every poll, also after one that returned a job
PollThenSleeps(w) ==
  /\ pc[w] = "poll"
  /\ ~ReadRaises(backend, fileText)
  /\ LET j == get_next_pending_job(ReadJobs(backend, fileText, registry))
     IN IF j = NoJob
        THEN UNCHANGED <<job, claimedBy>>
        ELSE /\ job' = [job EXCEPT ![w] = MarkProcessing(j)]
             /\ claimedBy' = [claimedBy EXCEPT ![j.id] = @ \cup {w}]
  /\ pc' = [pc EXCEPT ![w] = "sleep"]
  /\ UNCHANGED <<registry, wjobs, creatorVars, storeVars,
                 fileText, raisedAt, api, parity>>

\* main, lines 37-41: poll; with a job go on to process_job, without one sleep
Poll(w) ==
  /\ pc[w] = "poll"
  /\ ~ReadRaises(backend, fileText)
  /\ LET j == get_next_pending_job(ReadJobs(backend, fileText, registry))
     IN IF j = NoJob
        THEN /\ pc' = [pc EXCEPT ![w] = "sleep"]
             /\ UNCHANGED <<job, claimedBy>>
        ELSE /\ pc' = [pc EXCEPT ![w] = "claim_r"]
             /\ job' = [job EXCEPT ![w] = MarkProcessing(j)]
             /\ claimedBy' = [claimedBy EXCEPT ![j.id] = @ \cup {w}]
  /\ UNCHANGED <<registry, wjobs, creatorVars, storeVars,
                 fileText, raisedAt, api, parity>>

\* time.sleep(POLL_INTERVAL) returns
Sleep(w) ==
  /\ pc[w] = "sleep"
  /\ pc' = [pc EXCEPT ![w] = "poll"]
  /\ UNCHANGED <<registry, job, wjobs, claimedBy, creatorVars, storeVars,
                 fileText, raisedAt, api, parity>>

ReadSites == {"claim_r", "upload_r", "done_r", "fail_r"}
WriteSites == {"claim_w", "upload_w", "done_w", "fail_w"}
WriteSiteOf(site) ==
  CASE site = "claim_r" -> "claim_w"
    [] site = "upload_r" -> "upload_w"
    [] site = "done_r" -> "done_w"
    [] site = "fail_r" -> "fail_w"

\* where process_job goes on when the update_job at this site returns
NormalNext(site) ==
  CASE site = "claim_w" -> "work"
    [] site = "upload_w" -> "done_r"
    [] site \in {"done_w", "fail_w"} -> "poll"

\* the call of process_job a site belongs to
CallOf(site) ==
  CASE site \in {"claim_r", "claim_w"} -> "claim"
    [] site \in {"upload_r", "upload_w"} -> "upload"
    [] site \in {"done_r", "done_w"} -> "done"
    [] site \in {"fail_r", "fail_w"} -> "handler"

\* update_job, step 1: read the current list
UpdateJobRead(w) ==
  /\ pc[w] \in ReadSites
  /\ ~ReadRaises(backend, fileText)
  /\ wjobs' = [wjobs EXCEPT ![w] = ReadJobs(backend, fileText, registry)]
  /\ pc' = [pc EXCEPT ![w] = WriteSiteOf(pc[w])]
  /\ UNCHANGED <<registry, job, claimedBy, creatorVars, storeVars,
                 fileText, raisedAt, api, parity>>

\* update_job, steps 2 and 3: replace the record and write the list back;
\* then process_job up to its next call
UpdateJobWrite(w) ==
  /\ pc[w] \in WriteSites
  /\ registry' = ReplaceJob(wjobs[w], job[w])
  /\ fileText' = "json"
  /\ wjobs' = [wjobs EXCEPT ![w] = <<>>]
  /\ pc' = [pc EXCEPT ![w] = NormalNext(pc[w])]
  /\ CASE pc[w] = "claim_w" ->
            UNCHANGED <<job, raisedAt>>
       [] pc[w] = "upload_w" ->
            /\ job' = [job EXCEPT ![w] = MarkDone(job[w])]
            /\ UNCHANGED raisedAt
       [] pc[w] \in {"done_w", "fail_w"} ->
            /\ job' = [job EXCEPT ![w] = NoJob]
            /\ raisedAt' = [raisedAt EXCEPT ![w] = "none"]
  /\ UNCHANGED <<claimedBy, creatorVars, storeVars,
                 api, parity>>

\* How lines 18-24 can end, up to upload_output_from_local's update_job.
\* Image.open rejects corrupt bytes; any I/O step may raise.  On the local
\* backend download_input_to_tempfile only builds a Path and
\* upload_output_from_local stores nothing, so neither raises.
WorkOutcomes(b, bytes) ==
  (IF b = "local" THEN {} ELSE {"download_raises", "upload_raises"})
    \cup {"transform_raises"}
    \cup (IF bytes = "png" THEN {"ok"} ELSE {})

\* a cycle that never saves the transform's output to /tmp/<id>.png
FilesWrittenNoSave(b, id, outcome) ==
  IF b = "local" THEN {} ELSE {TmpFile(id)}

\* the files lines 18-22 have written on the worker's disk when the cycle gets
\* that far: the NamedTemporaryFile(delete=False) of a bucket/container
\* download, and the /tmp/<id>.png that img.save writes
FilesWritten(b, id, outcome) ==
  (IF b = "local" THEN {} ELSE {TmpFile(id)})
    \cup (IF outcome \in {"upload_raises", "ok"} THEN {OutFile(id)} ELSE {})

\* process_job, lines 18-24 up to upload_output_from_local's update_job:
\* download, transform and storing the output succeed, or one of them raises
Work(w) ==
  /\ pc[w] = "work"
  /\ \E outcome \in WorkOutcomes(backend, inputs[FilenameOf(job[w].image_path)]) :
       /\ files' = files \cup FilesWritten(backend, job[w].id, outcome)
       /\ IF outcome = "ok"
          THEN /\ outputs' = IF backend = "local" THEN outputs
                                ELSE outputs \cup {job[w].id}
               /\ job' = [job EXCEPT ![w] = SetResult(job[w])]
               /\ pc' = [pc EXCEPT ![w] = "upload_r"]
               /\ UNCHANGED raisedAt
          ELSE /\ outputs' = outputs
               /\ job' = [job EXCEPT ![w] = MarkFailed(job[w])]
               /\ pc' = [pc EXCEPT ![w] = "fail_r"]
               /\ raisedAt' = [raisedAt EXCEPT ![w] = "work"]
  /\ UNCHANGED <<registry, wjobs, claimedBy, creatorVars, backend, inputs, origBytes, origPath,
                 fileText, api, parity>>

\* update_job raises (its read or its write fails; nothing is written).
\* Inside the try block the handler takes over (lines 29-31); inside the
\* handler the exception leaves process_job and main: the worker ends.
UpdateJobRaises(w) ==
  /\ pc[w] \in ReadSites \cup WriteSites
  /\ wjobs' = [wjobs EXCEPT ![w] = <<>>]
  /\ IF CallOf(pc[w]) = "handler"
     THEN /\ pc' = [pc EXCEPT ![w] = "crashed"]
          /\ UNCHANGED <<job, raisedAt>>
     ELSE /\ pc' = [pc EXCEPT ![w] = "fail_r"]
          /\ job' = [job EXCEPT ![w] = MarkFailed(job[w])]
          /\ raisedAt' = [raisedAt EXCEPT ![w] = CallOf(pc[w])]
  /\ UNCHANGED <<registry, claimedBy, creatorVars, storeVars, fileText, api, parity>>

\* get_next_pending_job raises in main, outside any try: the worker ends
PollRaises(w) ==
  /\ pc[w] = "poll"
  /\ pc' = [pc EXCEPT ![w] = "crashed"]
  /\ UNCHANGED <<registry, job, wjobs, claimedBy, creatorVars, storeVars,
                 fileText, raisedAt, api, parity>>

\* the read of the list raises in create_job_from_bytes: the call ends with
\* the exception, after the upload and without a record
CreateRaises(c) ==
  /\ cpc[c] = "read"
  /\ cpc' = [cpc EXCEPT ![c] = "idle"]
  /\ cjob' = [cjob EXCEPT ![c] = NoJob]
  /\ UNCHANGED <<registry, nextId, cjobs, created, workerVars, storeVars,
                 fileText, raisedAt, api, parity>>

\* ------------------------------------------------------------------ API
\* whether the output of a job is stored: the object output/<id>.png of the
\* bucket/container, or on the local backend the file /tmp/<id>.png
OutputStored(b, id, outs, fs) ==
  IF b = "local" THEN OutFile(id) \in fs ELSE id \in outs

\* main.py get_result: 404 without a job or a result_path; on gcp the object
\* is downloaded (a missing object raises); otherwise Path(job.result_path)
\* must exist on the API's disk, else 404
GetResultOutcome(b, j, outs, fs) ==
  IF j = NoJob \/ j.result_path = <<>> THEN "NotFound"
  ELSE IF b = "gcp"
       THEN (IF j.result_path[3] \in outs THEN "File" ELSE "Error")
       ELSE (IF j.result_path \in fs THEN "File" ELSE "NotFound")

\* main.py read_job: get_job on the id
ApiGetJob(i) ==
  /\ ~ReadRaises(backend, fileText)
  /\ LET jobs == ReadJobs(backend, fileText, registry)
     IN api' = [op |-> "get", id |-> i, known |-> HasId(jobs, i),
                done |-> FALSE, stored |-> FALSE,
                job |-> get_job(jobs, i), outcome |-> "none"]
  /\ UNCHANGED <<registry, workerVars, creatorVars, storeVars, fileText, raisedAt, parity>>

\* main.py get_result
ApiGetResult(i) ==
  /\ ~ReadRaises(backend, fileText)
  /\ LET jobs == ReadJobs(backend, fileText, registry)
         j == get_job(jobs, i)
     IN api' = [op |-> "result", id |-> i, known |-> HasId(jobs, i),
                done |-> (j.status = DONE),
                stored |-> OutputStored(backend, i, outputs, files),
                job |-> j,
                outcome |-> GetResultOutcome(backend, j, outputs, files)]
  /\ UNCHANGED <<registry, workerVars, creatorVars, storeVars, fileText, raisedAt, parity>>

ApiStep ==
  \/ \E i \in Ids : ApiGetJob(i)
  \/ \E i \in Ids : ApiGetResult(i)

WorkerStep(w) ==
  \/ Poll(w)
  \/ Sleep(w)
  \/ UpdateJobRead(w)
  \/ UpdateJobWrite(w)
  \/ Work(w)

CreatorStep(c) ==
  \/ CreateStart(c)
  \/ CreateRead(c)
  \/ CreateWrite(c)

Next ==
  \/ \E w \in Workers : WorkerStep(w)
  \/ \E c \in Creators : CreatorStep(c)

\* ------------------------------------------------------- specifications
\* every interleaving of the workers' and the creators' I/O steps
Spec == Init /\ [][Next]_vars

\* A worker is a process running main's loop: it keeps taking steps.  A call of
\* create_job_from_bytes that has started runs to its return; new calls need
\* not arrive.
Fairness ==
  /\ \A w \in Workers : WF_vars(WorkerStep(w))
  /\ \A c \in Creators : WF_vars(CreateRead(c) \/ CreateWrite(c))

SpecFair == Spec /\ Fairness

\* the single worker of the one-worker specifications
TheWorker == CHOOSE w \in Workers : \A v \in Workers : w <= v

\* one worker (no claim can interleave with another) beside the creators
NextOneWorker ==
  \/ WorkerStep(TheWorker)
  \/ \E c \in Creators : CreatorStep(c)

SpecOneWorkerFair ==
  /\ Init /\ [][NextOneWorker]_vars
  /\ WF_vars(WorkerStep(TheWorker))
  /\ \A c \in Creators : WF_vars(CreateRead(c) \/ CreateWrite(c))

\* the registry pre-seeded with M >= 1 PENDING jobs, and no further ingestion
SeededRegistry(m) == [k \in 1..m |-> Job(k, InputPath("a.png"))]

InitSeeded ==
  /\ backend \in Backends
  /\ inputs = [f \in Filenames |-> IF f = "a.png" THEN "png" ELSE None]
  /\ outputs = {}
  /\ files = {}
  /\ \E m \in 1..MaxJobs :
       /\ registry = SeededRegistry(m)
       /\ nextId = m + 1
       /\ created = [k \in 1..m |-> k]
       /\ origBytes = [i \in Ids |-> IF i <= m THEN "png" ELSE None]
       /\ origPath = [i \in Ids |-> IF i <= m THEN InputPath("a.png") ELSE <<>>]
  /\ fileText = "json"
  /\ raisedAt = [w \in Workers |-> "none"]
  /\ api = NoRequest
  /\ parity = NoOperations
  /\ pc = [w \in Workers |-> "poll"]
  /\ job = [w \in Workers |-> NoJob]
  /\ wjobs = [w \in Workers |-> <<>>]
  /\ cpc = [c \in Creators |-> "idle"]
  /\ cjob = [c \in Creators |-> NoJob]
  /\ cjobs = [c \in Creators |-> <<>>]
  /\ claimedBy = [i \in Ids |-> {}]

NextSeeded == \E w \in Workers : WorkerStep(w)

SpecSeeded ==
  InitSeeded /\ [][NextSeeded]_vars /\ \A w \in Workers : WF_vars(WorkerStep(w))

\* Absent contention: one worker, and no process touches the registry while
\* another is between its read of the list and its write-back.
WorkerInUpdate == pc[TheWorker] \in WriteSites
CreatorInUpdate(c) == cpc[c] = "write"

NextFifo ==
  \/ /\ \A c \in Creators : ~CreatorInUpdate(c)
     /\ WorkerStep(TheWorker)
  \/ \E c \in Creators :
       /\ ~WorkerInUpdate
       /\ \A d \in Creators \ {c} : ~CreatorInUpdate(d)
       /\ CreatorStep(c)

SpecFifo == Init /\ [][NextFifo]_vars

\* ------------------------------------------------------------- claims
Terminal == {DONE, FAILED}
Records == Range(registry)
CreatedIds == Range(created)
\* the position of an id in the creation order
CreatedAt(i) == CHOOSE k \in 1..Len(created) : created[k] = i

\* C1: every job is obtained from get_next_pending_job, and processed, by at
\* most one worker.
C1_ClaimedByAtMostOneWorker ==
  \A i \in Ids : Cardinality(claimedBy[i]) <= 1

\* C2: with fairly scheduled workers and a registry pre-seeded with PENDING
\* jobs, eventually every seeded job is DONE or FAILED in the persisted
\* registry, and stays so.
C2_AllSeededJobsEndTerminal ==
  <>[](\A i \in CreatedIds : StatusOf(i) \in Terminal)

\* C3: once a record's persisted status is DONE or FAILED, no step changes it.
C3_TerminalSticky ==
  [][\A i \in Ids :
       StatusOf(i) \in Terminal => get_job(registry', i).status = StatusOf(i)]_vars

\* C4: in every persisted registry state a worker cycle produces, each record
\* has a result_path if and only if its status is DONE.
C4_ResultPathIffDone ==
  \A r \in Records : (r.result_path # <<>>) <=> (r.status = DONE)

\* C5: in every persisted registry state, each record has an error if and
\* only if its status is FAILED.
C5_ErrorIffFailed ==
  \A r \in Records : (r.error # None) <=> (r.status = FAILED)

\* C5 witness: a failed job's record is in the registry with its error, beside
\* a record that is not FAILED.
C5_Witness ==
  /\ \E r \in Records : r.status = FAILED /\ r.error = ErrText
  /\ \E r \in Records : r.status = DONE /\ r.error = None

\* C6: no step takes a record's persisted status from PENDING directly to
\* DONE or FAILED.
C6_NoSkipOfProcessing ==
  [][\A i \in Ids :
       StatusOf(i) = PENDING => get_job(registry', i).status \notin Terminal]_vars

\* C7: no step takes a record's persisted status from PROCESSING, DONE or
\* FAILED back to PENDING.
C7_NoReentryToPending ==
  [][\A i \in Ids :
       StatusOf(i) \in {PROCESSING, DONE, FAILED}
         => get_job(registry', i).status # PENDING]_vars

\* C8: every record create_job_from_bytes has returned is in the persisted
\* registry: get_job on its id returns a record.
C8_ReturnedJobsStay ==
  \A i \in CreatedIds : get_job(registry, i) # NoJob

\* C9: a job whose persisted status is PROCESSING eventually is DONE or FAILED
\* in the persisted registry.
C9_ClaimedEventuallyTerminal ==
  \A i \in Ids : (StatusOf(i) = PROCESSING) ~> (StatusOf(i) \in Terminal)

\* C10: absent contention, (a) the job a poll hands to process_job is the
\* earliest-created record whose persisted status is PENDING, and (b) a job is
\* claimed only after every job created before it has been claimed.
PendingIds == {i \in CreatedIds : StatusOf(i) = PENDING}
C11_InputKeepsBytes ==
  \A r \in Records :
    (r.id \in CreatedIds /\ claimedBy[r.id] = {})
      => inputs[FilenameOf(r.image_path)] = origBytes[r.id]

\* C18: between cycles (every worker polling or sleeping) no file written by a
\* worker cycle is left on the workers' disk.
C18_NoScratchLeft ==
  (\A w \in Workers : pc[w] \in {"poll", "sleep"}) => files = {}

\* ------------------------------------------- registry I/O that can raise
\* One worker on a seeded registry; any update_job and any poll may raise.
NextFaults ==
  \/ WorkerStep(TheWorker)
  \/ UpdateJobRaises(TheWorker)
  \/ PollRaises(TheWorker)

SpecFaults == InitSeeded /\ [][NextFaults]_vars

\* C12: a cycle whose download, transform or upload raised and that then ends
\* leaves the job FAILED with a non-null error and a null result_path.
C12_FailedCycleHasNoResult ==
  [][\A w \in Workers :
       (pc[w] = "fail_w" /\ raisedAt[w] \in {"work", "upload"} /\ pc'[w] = "poll")
         => LET r == get_job(registry', job[w].id)
            IN  r.status = FAILED /\ r.error # None /\ r.result_path = <<>>]_vars

\* C13: a worker inside its exception handler never terminates there: the
\* handler always returns to the loop.
C13_HandlerNeverEndsWorker ==
  [][\A w \in Workers :
       pc[w] \in {"fail_r", "fail_w"} => pc'[w] # "crashed"]_vars

\* C14: when the claim's update_job raised, the cycle ends with the job's
\* persisted status still PENDING.
C14_FailedClaimStaysPending ==
  [][\A w \in Workers :
       (pc[w] = "fail_w" /\ raisedAt[w] = "claim" /\ pc'[w] = "poll")
         => get_job(registry', job[w].id).status = PENDING]_vars

\* C15: an update_job that returns normally was given a job whose id is in the
\* list it read.
C15_UpdateOnlyKnownIds ==
  [][\A w \in Workers :
       (pc[w] \in WriteSites /\ pc'[w] = NormalNext(pc[w]))
         => HasId(wjobs[w], job[w].id)]_vars

\* ------------------------------------------------ the API beside a worker
NextApi ==
  \/ NextOneWorker
  \/ ApiStep

SpecApi == Init /\ [][NextApi]_vars

\* C16: a get on an id that is not in the registry returns None; it does not
\* raise.
C16_GetUnknownReturnsNone ==
  (api.op = "get" /\ ~api.known) => api.job = NoJob

\* a get was served for an id absent from a registry that holds records
C16_Witness ==
  api.op = "get" /\ ~api.known /\ api.job = NoJob /\ registry # <<>>

\* C19: on every backend, get_result on a job that is DONE and whose output
\* is stored returns the stored file, not NotFound.
C19_ResultServedWhenDone ==
  (api.op = "result" /\ api.done /\ api.stored) => api.outcome = "File"

\* ------------------------------------------- an unparsable registry text
\* The persisted text is blank or not JSON; registry keeps the records the
\* last good text held (no read returns them while the text is unparsable).
InitCorrupt ==
  /\ backend \in Backends
  /\ fileText \in {"blank", "garbage"}
  /\ inputs = [f \in Filenames |-> IF f = "a.png" THEN "png" ELSE None]
  /\ outputs = {}
  /\ files = {}
  /\ \E m \in 1..MaxJobs :
       /\ registry = SeededRegistry(m)
       /\ nextId = m + 1
       /\ created = [k \in 1..m |-> k]
       /\ origBytes = [i \in Ids |-> IF i <= m THEN "png" ELSE None]
       /\ origPath = [i \in Ids |-> IF i <= m THEN InputPath("a.png") ELSE <<>>]
  /\ raisedAt = [w \in Workers |-> "none"]
  /\ api = NoRequest
  /\ parity = NoOperations
  /\ pc = [w \in Workers |-> "poll"]
  /\ job = [w \in Workers |-> NoJob]
  /\ wjobs = [w \in Workers |-> <<>>]
  /\ cpc = [c \in Creators |-> "idle"]
  /\ cjob = [c \in Creators |-> NoJob]
  /\ cjobs = [c \in Creators |-> <<>>]
  /\ claimedBy = [i \in Ids |-> {}]

NextCorrupt ==
  \/ WorkerStep(TheWorker)
  \/ ReadRaises(backend, fileText) /\ PollRaises(TheWorker)
  \/ \E c \in Creators : CreatorStep(c)
  \/ \E c \in Creators : ReadRaises(backend, fileText) /\ CreateRaises(c)

SpecCorrupt == InitCorrupt /\ [][NextCorrupt]_vars

\* C17: no step replaces an unparsable registry text by a registry that lacks
\* a record the text held before.
C17_CorruptNeverReset ==
  [][(fileText # "json" /\ fileText' = "json")
       => \A i \in CreatedIds : HasId(registry', i)]_vars

\* ------------------------------ the same operations on the three backends
\* create_job_from_bytes, local: dest = LOCAL_INPUT_DIR / filename and
\* dest.write_bytes raise when filename has a directory part (only
\* LOCAL_INPUT_DIR itself is created); an object name may hold "/"
CreateRaisesOn(b, filename) == b = "local" /\ filename \in NestedFilenames

\* upload_output_from_local on backend b: job.result_path = <the output's path>
SetResultOn(b, j) == [j EXCEPT !.result_path = OutputPathOn(b, j.id)]

otherVars == <<registry, workerVars, creatorVars, storeVars, fileText, raisedAt, api>>

\* submit: create_job_from_bytes(filename, bytes) on every backend
ParSubmit(filename, bytes) ==
  /\ parity.pc = "idle"
  /\ parity.next <= MaxJobs
  /\ parity' = [parity EXCEPT
       !.inputs[filename] = bytes,
       !.next = parity.next + 1,
       !.reg = [b \in Backends |->
                  IF CreateRaisesOn(b, filename) THEN parity.reg[b]
                  ELSE AppendJob(parity.reg[b],
                                 Job(parity.next, InputPathOn(b, filename)))]]
  /\ UNCHANGED otherVars

\* claim: on every backend the worker polls; with a job it writes PROCESSING
ParClaim ==
  /\ parity.pc = "idle"
  /\ \E b \in Backends : get_next_pending_job(parity.reg[b]) # NoJob
  /\ LET claimed == [b \in Backends |->
           LET j == get_next_pending_job(parity.reg[b])
           IN IF j = NoJob THEN NoJob ELSE MarkProcessing(j)]
     IN parity' = [parity EXCEPT
          !.job = claimed,
          !.reg = [b \in Backends |->
                     IF claimed[b] = NoJob THEN parity.reg[b]
                     ELSE ReplaceJob(parity.reg[b], claimed[b])],
          !.pc = "work"]
  /\ UNCHANGED otherVars

\* download, transform, upload: the transform accepts png bytes only
ParWork ==
  /\ parity.pc = "work"
  /\ LET worked == [b \in Backends |->
           LET j == parity.job[b]
           IN IF j = NoJob THEN NoJob
              ELSE IF parity.inputs[FilenameOf(j.image_path)] = "png"
                   THEN SetResultOn(b, j)
                   ELSE MarkFailed(j)]
     IN parity' = [parity EXCEPT
          !.job = worked,
          !.reg = [b \in Backends |->
                     IF worked[b] = NoJob \/ worked[b].status = FAILED
                     THEN parity.reg[b]
                     ELSE ReplaceJob(parity.reg[b], worked[b])],
          !.pc = "finish"]
  /\ UNCHANGED otherVars

\* the last update_job of the cycle: DONE, or the handler's FAILED
ParFinish ==
  /\ parity.pc = "finish"
  /\ parity' = [parity EXCEPT
       !.job = [b \in Backends |-> NoJob],
       !.reg = [b \in Backends |->
                  LET j == parity.job[b]
                  IN IF j = NoJob THEN parity.reg[b]
                     ELSE IF j.status = FAILED THEN ReplaceJob(parity.reg[b], j)
                     ELSE ReplaceJob(parity.reg[b], MarkDone(j))],
       !.pc = "idle"]
  /\ UNCHANGED otherVars

NextParity ==
  \/ \E f \in ParFilenames, bytes \in Bytes : ParSubmit(f, bytes)
  \/ ParClaim
  \/ ParWork
  \/ ParFinish

SpecParity == Init /\ [][NextParity]_vars

\* what of a record does not depend on the URI scheme
Shape(r) ==
  [id |-> r.id, status |-> r.status, error |-> r.error,
   hasResult |-> (r.result_path # <<>>)]

\* C20: after every operation the registries of the three backends have the
\* same length and, position by position, records of the same id, status,
\* error and null-ness of result_path.
C20_BackendsInLockstep ==
  \A a, b \in Backends :
    /\ Len(parity.reg[a]) = Len(parity.reg[b])
    /\ \A k \in 1..Len(parity.reg[a]) :
         k <= Len(parity.reg[b]) => Shape(parity.reg[a][k]) = Shape(parity.reg[b][k])

\* ------------------------------------------------ what updates leave alone
\* C21: every record of the persisted registry carries the image_path its id
\* was created with, whatever creates and worker updates have happened.
C21_ImagePathNeverChanges ==
  \A k \in 1..Len(registry) :
    registry[k].image_path = origPath[registry[k].id]

\* both jobs were created and a worker's update has been written for one
C21_Witness ==
  /\ Len(registry) > 1
  /\ \E r \in Records : r.status \in Terminal
  /\ \A r \in Records : r.image_path # <<>> /\ r.image_path = origPath[r.id]

\* C22: the write of an update_job leaves every record whose id is not job.id
\* as it was in the persisted registry right before the write.
C22_UpdateTouchesOnlyItsRecord ==
  [][\A w \in Workers :
       (pc[w] \in WriteSites /\ pc'[w] = NormalNext(pc[w]))
         => \A i \in Ids \ {job[w].id} :
              get_job(registry', i) = get_job(registry, i)]_vars

\* every Job object that carries a result_path: persisted or held by a worker
JobsWithResult ==
  {r \in Records \cup Range(job) : r.result_path # <<>>}

\* C23: the output name is a function of the job id and of nothing else: two
\* Job objects name the same output exactly when they are the same job, also
\* when the job was processed by more than one worker cycle.
C23_OneOutputNamePerJob ==
  \A r, q \in JobsWithResult :
    (r.id = q.id) <=> (r.result_path = q.result_path)

\* two jobs have an output, and one of them was processed twice
C23_Witness ==
  /\ \E r, q \in Records :
       r.id # q.id /\ r.result_path # <<>> /\ q.result_path # <<>>
  /\ \E i \in Ids :
       Cardinality(claimedBy[i]) > 1 /\ get_job(registry, i).result_path # <<>>

\* the object or file a result_path names exists
PathExists(b, path, outs, fs) ==
  IF b = "local" THEN path \in fs
  ELSE path = OutputPathOn(b, path[3]) /\ path[3] \in outs

\* C24: the output named by the result_path of every DONE record exists.
C24_DoneHasStoredOutput ==
  \A r \in Records :
    r.status = DONE
      => r.result_path # <<>> /\ PathExists(backend, r.result_path, outputs, files)

\* a job is DONE in the persisted registry after a second record was created
C24_Witness ==
  /\ \E r \in Records :
       r.status = DONE /\ PathExists(backend, r.result_path, outputs, files)
  /\ Len(created) > 1

\* C25: a poll that returns no job takes the worker to its sleep, a poll that
\* returns a job takes it into process_job, and the only ways back to the
\* poll are the end of the sleep and the end of a cycle.
C25_NoBusySpin ==
  [][\A w \in Workers :
       /\ (pc[w] = "poll" /\ pc'[w] # "poll")
            => IF get_next_pending_job(registry) = NoJob
               THEN pc'[w] = "sleep" /\ job'[w] = NoJob
               ELSE pc'[w] = "claim_r" /\ job'[w] # NoJob
       /\ (pc[w] # "poll" /\ pc'[w] = "poll")
            => pc[w] \in {"sleep", "done_w", "fail_w"}]_vars

\* one worker sleeps after an empty poll while another processes a job
C25_Witness ==
  \E w, v \in Workers :
    /\ pc[w] = "sleep" /\ job[w] = NoJob
    /\ pc[v] \notin {"poll", "sleep"} /\ job[v] # NoJob
====
